---- MODULE Spec2Model ----
(***************************************************************************)
(* Fee calculation, balance ledger and payout lifecycle of the fundraise   *)
(* backend (src/src/services/payout.service.ts and the routes that call    *)
(* it), for one campaign.                                                  *)
(*                                                                         *)
(* Money is held in whole cents (the decimal(12,2) columns of schema.ts).  *)
(* Percentages are held in tenths of a percent ('2.9' is 29, '5.0' is 50), *)
(* so amount * percentage is in thousandths of a cent.  The JavaScript     *)
(* doubles are modelled by exact arithmetic; Math.round and toFixed(2) are *)
(* modelled by what they do on the exact value.                            *)
(***************************************************************************)
EXTENDS Integers, Sequences, FiniteSets, TLC

\* ------------------------------------------------------------------ bounds
\* requests handled in one behaviour (every route and webhook delivery counts)
MaxRequests == 5

\* requests the server has in flight at once (node interleaves them at awaits)
MaxInFlight == 2

\* requests started in one behaviour of the interleaved specification
MaxStarted == 4

\* gross donation amounts offered to POST /donations, in cents:
\* 0.10 (below the fixed fee), 27.47 (nets the minimum payout exactly),
\* 50.00 and 108.90 (nets 100.00)
DonationAmounts == {10, 2747, 5000, 10890}
\* amounts offered to POST /manual, in cents
ManualAmounts == {5000}

Owner == "owner"
Users == {Owner, "stranger"}
NULL == "null"
Account == "acct_1"

\* ------------------------------------------------------- platform settings
DefaultPlatformFeePercentage == 50
DefaultStripeProcessingFeePercentage == 29
DefaultStripeProcessingFeeFixed == 30
DefaultMinimumPayoutAmount == 2500

\* gross amounts 0.01 .. MaxAmount / 100 are given to calculateFees
MaxAmount == 150

\* fee schedules with non-negative percentages and fixed fee
FeeSchedules ==
  { [ platformFeePercentage |-> pf, stripeProcessingFeePercentage |-> pp,
      stripeProcessingFeeFixed |-> fx,
      minimumPayoutAmount |-> DefaultMinimumPayoutAmount ] :
      pf \in {0, DefaultPlatformFeePercentage, 125},
      pp \in {0, DefaultStripeProcessingFeePercentage, 1000},
      fx \in {0, DefaultStripeProcessingFeeFixed} }

DefaultSettings ==
  [ platformFeePercentage |-> DefaultPlatformFeePercentage,
    stripeProcessingFeePercentage |-> DefaultStripeProcessingFeePercentage,
    stripeProcessingFeeFixed |-> DefaultStripeProcessingFeeFixed,
    minimumPayoutAmount |-> DefaultMinimumPayoutAmount ]

\* no code writes the platform_settings table: every key takes its default
getPlatformSettings == DefaultSettings

\* ------------------------------------------------------------ pure helpers
\* (mutant) truncation in place of rounding
MathFloor(milli) == milli \div 1000

\* Math.round(x * 100) on x given in thousandths of a cent: floor(x + 0.5)
MathRound(milli) == (milli + 500) \div 1000

\* Number.prototype.toFixed(2) of n / d dollars' cents, n / d >= 0:
\* nearest cent, the larger one on a tie
ToFixed2(n, d) == (2 * n + d) \div (2 * d)

calculateFees(amount, s) ==
  LET stripeProcessingFee ==
        amount * s.stripeProcessingFeePercentage + s.stripeProcessingFeeFixed * 1000
      platformFee == amount * s.platformFeePercentage
      netAmount == amount * 1000 - stripeProcessingFee - platformFee
  IN  [ platformFee |-> MathRound(platformFee),
        processingFee |-> MathRound(stripeProcessingFee),
        netAmount |-> MathRound(netAmount) ]

\* ------------------------------------------------------------------- state
VARIABLES
  isTestMode,    \* process.env.NODE_ENV !== 'production'
  campaign,      \* the campaign row
  donations,     \* donations rows, the id of a row is its index
  payouts,       \* payouts rows, the id of a row is its index
  transactions,  \* transactions rows
  transfers,     \* calls of stripe.transfers.create that were accepted
  nRequests,     \* requests handled so far
  last,          \* the last request handled: which, on which row, its answer
  feeCall,       \* one call of calculateFees: its arguments and what it returned
  inFlight       \* per request slot: where a request stopped at an await, its locals

vars ==
  << isTestMode, campaign, donations, payouts, transactions, transfers,
     nRequests, last, feeCall, inFlight >>

NoFeeCall ==
  [ amount |-> 0, settings |-> DefaultSettings, returned |-> FALSE,
    fees |-> [ platformFee |-> 0, processingFee |-> 0, netAmount |-> 0 ] ]

\* a request slot with no request in it
Idle == [ pc |-> "idle", amount |-> 0, read |-> 0, id |-> 0 ]

NoneInFlight == [ t \in 1..MaxInFlight |-> Idle ]

\* one more request is handled, from its first statement to its response
Counted ==
  /\ nRequests < MaxRequests
  /\ nRequests' = nRequests + 1
  /\ UNCHANGED << feeCall, inFlight >>

Handled(op, id, result) == [ op |-> op, id |-> id, result |-> result ]

Init ==
  /\ isTestMode \in BOOLEAN
  /\ campaign =
       [ userId |-> Owner, currentAmount |-> 0, availableBalance |-> 0,
         paidOut |-> 0, stripeConnectAccountId |-> NULL ]
  /\ donations = << >>
  /\ payouts = << >>
  /\ transactions = << >>
  /\ transfers = << >>
  /\ nRequests = 0
  /\ last = Handled("init", 0, "ok")
  /\ feeCall = NoFeeCall
  /\ inFlight = NoneInFlight

\* ------------------------------------------------------------ processDonation
\* the rows processDonation writes for donation d: its result is the
\* transactions table and the campaign row after it (it throws, writing
\* nothing, when the donation is missing or not completed)
\* (mutant) the gross amount is credited, the fees are not taken out
processDonationGross(c, dons, txs, d) ==
  IF d \notin 1..Len(dons) \/ dons[d].status # "completed"
  THEN [ campaign |-> c, transactions |-> txs ]
  ELSE
    LET amount == dons[d].amount
        fees == calculateFees(amount, getPlatformSettings)
    IN  [ transactions |->
            Append(txs,
              [ type |-> "donation", donationId |-> d, payoutId |-> 0,
                amount |-> amount, platformFee |-> fees.platformFee,
                processingFee |-> fees.processingFee,
                netAmount |-> fees.netAmount, status |-> "completed" ]),
          campaign |-> [ c EXCEPT !.availableBalance = c.availableBalance + amount ] ]

processDonation(c, dons, txs, d) ==
  IF d \notin 1..Len(dons) \/ dons[d].status # "completed"
  THEN [ campaign |-> c, transactions |-> txs ]
  ELSE
    LET amount == dons[d].amount
        fees == calculateFees(amount, getPlatformSettings)
    IN  [ transactions |->
            Append(txs,
              [ type |-> "donation", donationId |-> d, payoutId |-> 0,
                amount |-> amount, platformFee |-> fees.platformFee,
                processingFee |-> fees.processingFee,
                netAmount |-> fees.netAmount, status |-> "completed" ]),
          campaign |->
            [ c EXCEPT !.availableBalance = c.availableBalance + fees.netAmount ] ]

\* ------------------------------------------------- POST /donations (create)
\* the donations row the create route inserts
NewDonation(amount, paymentIntentId) ==
  [ amount |-> amount, status |-> "completed", paymentIntentId |-> paymentIntentId ]

\* the id of the payment intent Stripe holds for an amount in cents: the
\* model has one payment intent per amount, so a second request with the
\* same amount submits the same paymentIntentId again
PaymentIntentId(amt) == amt

\* pi: what stripeService.getPaymentIntent answers for the submitted id
PaymentIntents(amount) ==
  { [ id |-> PaymentIntentId(amt), status |-> st, amount |-> amt ] :
      st \in {"succeeded", "requires_capture", "requires_payment_method"},
      amt \in {amount, amount + 1} }

CreateDonation(amount, pi) ==
  /\ Counted
  /\ IF pi.status \notin {"succeeded", "requires_capture"}
     THEN /\ last' = Handled("createDonation", 0, "payment_not_completed")
          /\ UNCHANGED << campaign, donations, transactions >>
     ELSE IF pi.amount # amount
     THEN /\ last' = Handled("createDonation", 0, "amount_mismatch")
          /\ UNCHANGED << campaign, donations, transactions >>
     ELSE
       LET d == Len(donations) + 1
           inserted == Append(donations, NewDonation(amount, pi.id))
           credited == processDonation(campaign, inserted, transactions, d)
       IN  /\ donations' = inserted
           /\ transactions' = credited.transactions
           \* currentAmount is written from the campaign row read on entry
           /\ campaign' =
                [ credited.campaign EXCEPT !.currentAmount = campaign.currentAmount + amount ]
           /\ last' = Handled("createDonation", d, "ok")
  /\ UNCHANGED << isTestMode, payouts, transfers >>

\* ------------------------------ POST /payouts/debug/reprocess-campaign/:id
RECURSIVE reprocessFrom(_, _, _, _)
reprocessFrom(c, dons, txs, d) ==
  IF d > Len(dons)
  THEN [ campaign |-> c, transactions |-> txs ]
  ELSE LET r == processDonation(c, dons, txs, d)
       IN  reprocessFrom(r.campaign, dons, r.transactions, d + 1)

ReprocessCampaign ==
  /\ Counted
  /\ LET r == reprocessFrom(campaign, donations, transactions, 1)
     IN  /\ campaign' = r.campaign
         /\ transactions' = r.transactions
  /\ last' = Handled("reprocessCampaign", 0, "ok")
  /\ UNCHANGED << isTestMode, donations, payouts, transfers >>

\* -------------------------------------------------------- processStripePayout
SetTransactionStatus(txs, p, status) ==
  [ i \in DOMAIN txs |->
      IF txs[i].payoutId = p THEN [ txs[i] EXCEPT !.status = status ] ELSE txs[i] ]

\* (mutant) the catch block records the status only
MarkPayoutFailedNoReason(pays, p, reason) ==
  IF p \in 1..Len(pays)
  THEN [ pays EXCEPT ![p].status = "failed" ]
  ELSE pays

\* the catch block: the payout row with this id, if any, is marked failed
MarkPayoutFailed(pays, p, reason) ==
  IF p \in 1..Len(pays)
  THEN [ pays EXCEPT ![p].status = "failed", ![p].failureReason = reason ]
  ELSE pays

\* a transfer Stripe has accepted: metadata.payoutId, the amount in cents, and
\* whether Stripe has delivered the event that reports how it ended
NewTransfer(p, amount) == [ payoutId |-> p, amount |-> amount, delivered |-> FALSE ]

\* how the call of stripe.transfers.create ends: it returns the transfer, or
\* it throws because Stripe refused it, or it throws because the connection
\* timed out with the outcome unknown
TransferOutcomes == {"accepted", "rejected", "timeout"}

\* the message of the error stripe.transfers.create throws
TransferErrorMessage(outcome) ==
  IF outcome = "timeout" THEN "timeout" ELSE "transfer error"

processStripePayout(c, pays, txs, trs, p, outcome) ==
  LET thrown(reason) ==
        [ payouts |-> MarkPayoutFailed(pays, p, reason), transactions |-> txs,
          transfers |-> trs, success |-> FALSE, error |-> reason ]
      isTestAccount == c.stripeConnectAccountId = Account
  IN  IF p \notin 1..Len(pays) \/ pays[p].status # "pending"
      THEN thrown("Payout not found or already processed")
      ELSE IF c.stripeConnectAccountId = NULL
      THEN thrown("Stripe Connect account not set up for this campaign")
      ELSE IF isTestMode /\ isTestAccount
      THEN [ payouts |->
               [ pays EXCEPT ![p].status = "completed", ![p].stripeTransferId = "tr_test" ],
             transactions |-> SetTransactionStatus(txs, p, "completed"),
             transfers |-> trs, success |-> TRUE, error |-> NULL ]
      ELSE IF outcome # "accepted"
      THEN thrown(TransferErrorMessage(outcome))
      ELSE [ payouts |->
               [ pays EXCEPT ![p].status = "processing", ![p].stripeTransferId = "tr" ],
             transactions |-> SetTransactionStatus(txs, p, "processing"),
             transfers |-> Append(trs, NewTransfer(p, pays[p].netAmount)),
             success |-> TRUE, error |-> NULL ]

\* ------------------------------------------------------- getCampaignBalance
\* (mutant) a balance equal to the minimum is refused
getCampaignBalanceStrict(c) ==
  [ availableBalance |-> c.availableBalance,
    paidOut |-> c.paidOut,
    totalRaised |-> c.currentAmount,
    minimumPayoutAmount |-> getPlatformSettings.minimumPayoutAmount,
    canPayout |-> c.availableBalance > getPlatformSettings.minimumPayoutAmount ]

getCampaignBalance(c) ==
  [ availableBalance |-> c.availableBalance,
    paidOut |-> c.paidOut,
    totalRaised |-> c.currentAmount,
    minimumPayoutAmount |-> getPlatformSettings.minimumPayoutAmount,
    canPayout |-> c.availableBalance >= getPlatformSettings.minimumPayoutAmount ]

\* -------------------------------------------------------------- requestPayout
NewPayout(userId, amount, platformFee, processingFee, netAmount, paymentMethod) ==
  [ userId |-> userId, amount |-> amount, platformFee |-> platformFee,
    processingFee |-> processingFee, netAmount |-> netAmount,
    status |-> "pending", paymentMethod |-> paymentMethod,
    stripeTransferId |-> NULL, failureReason |-> NULL ]

\* the row requestPayout inserts: 5% platform fee, no processing fee
RequestedPayoutRow(userId, amount) ==
  NewPayout(userId, amount, ToFixed2(amount * 5, 100), 0,
            ToFixed2(amount * 95, 100), "stripe_connect")

\* the row POST /manual inserts: 5% platform fee, 3% processing fee
ManualPayoutRow(userId, amount, paymentMethod) ==
  NewPayout(userId, amount, ToFixed2(amount * 5, 100),
            ToFixed2(amount * 3, 100), ToFixed2(amount * 92, 100),
            paymentMethod)

\* the campaign row written once the transfer call has succeeded
ReserveBalance(c, amount) ==
  [ c EXCEPT !.availableBalance = 0, !.paidOut = c.paidOut + amount ]

\* (mutant) the balance is reserved before the transfer and not given back
ReservedNotReversed(c, amount) == [ c EXCEPT !.availableBalance = 0 ]

\* the campaign row when the transfer call has thrown: requestPayout rethrows
\* before it writes the campaign
CampaignAfterTransferError(c, amount) == c

\* (mutant) the campaign is looked up by id alone
OwnsCampaignAnyone(c, userId) == TRUE

\* the campaign is found only under the caller's user id
OwnsCampaign(c, userId) == userId = c.userId

requestPayout(userId, outcome) ==
  LET balance == getCampaignBalance(campaign)
      amount == balance.availableBalance
      platformFee == ToFixed2(amount * 5, 100)
      netAmount == ToFixed2(amount * 95, 100)
      p == Len(payouts) + 1
      inserted ==
        Append(payouts, RequestedPayoutRow(userId, amount))
      transferResult ==
        processStripePayout(campaign, inserted, transactions, transfers, p, outcome)
  IN  IF ~OwnsCampaign(campaign, userId)
      THEN /\ last' = Handled("requestPayout", 0, "Campaign not found or access denied")
           /\ UNCHANGED << campaign, payouts, transactions, transfers >>
      ELSE IF campaign.stripeConnectAccountId = NULL
      THEN /\ last' = Handled("requestPayout", 0,
                              "Stripe Connect account not set up for this campaign")
           /\ UNCHANGED << campaign, payouts, transactions, transfers >>
      ELSE IF ~balance.canPayout
      THEN /\ last' = Handled("requestPayout", 0, "Minimum payout amount")
           /\ UNCHANGED << campaign, payouts, transactions, transfers >>
      ELSE
        /\ payouts' = transferResult.payouts
        /\ transfers' = transferResult.transfers
        /\ IF transferResult.success
           THEN /\ campaign' = ReserveBalance(campaign, amount)
                /\ transactions' =
                     Append(transferResult.transactions,
                       [ type |-> "payout", donationId |-> 0, payoutId |-> p,
                         amount |-> amount, platformFee |-> platformFee,
                         processingFee |-> 0, netAmount |-> netAmount,
                         status |-> "processing" ])
                /\ last' = Handled("requestPayout", p, "ok")
           ELSE /\ campaign' = CampaignAfterTransferError(campaign, amount)
                /\ transactions' = transferResult.transactions
                /\ last' = Handled("requestPayout", p, transferResult.error)

RequestPayout(userId, outcome) ==
  /\ Counted
  /\ requestPayout(userId, outcome)
  /\ UNCHANGED << isTestMode, donations >>

\* ------------------------------------------------- POST /payouts/:id/process
ProcessPayout(p, outcome) ==
  /\ Counted
  /\ LET r == processStripePayout(campaign, payouts, transactions, transfers, p, outcome)
     IN  /\ payouts' = r.payouts
         /\ transactions' = r.transactions
         /\ transfers' = r.transfers
         /\ last' = Handled("processPayout", p, IF r.success THEN "ok" ELSE r.error)
  /\ UNCHANGED << isTestMode, campaign, donations >>

\* -------------------------------------------- handleStripeTransferWebhook
\* event: [ type, payoutId ], payoutId 0 when the metadata carries none
WebhookEvents ==
  { [ type |-> t, payoutId |-> p ] :
      t \in {"transfer.paid", "transfer.failed", "transfer.created"},
      p \in 0..(Len(payouts) + 1) }

\* (mutant) the gross amount of the payout is added to paid_out
CreditPaidOutGross(c, payout) ==
  [ c EXCEPT !.paidOut = c.paidOut + payout.amount ]

\* transfer.paid: the campaign row after "paid_out + netAmount"
CreditPaidOut(c, payout) ==
  [ c EXCEPT !.paidOut = c.paidOut + payout.netAmount ]

\* transfer.failed: the campaign row after "available_balance + netAmount"
RestoreBalance(c, payout) ==
  [ c EXCEPT !.availableBalance = c.availableBalance + payout.netAmount ]

\* (mutant) the handler acknowledges the event and writes nothing
handleStripeTransferWebhookIgnored(c, pays, txs, event) ==
  [ payouts |-> pays, transactions |-> txs, campaign |-> c ]

handleStripeTransferWebhook(c, pays, txs, event) ==
  LET p == event.payoutId
      found == p \in 1..Len(pays)
  IN  IF event.type = "transfer.paid" /\ p # 0
      THEN [ payouts |->
               IF found THEN [ pays EXCEPT ![p].status = "completed" ] ELSE pays,
             transactions |-> SetTransactionStatus(txs, p, "completed"),
             campaign |->
               IF found THEN CreditPaidOut(c, pays[p]) ELSE c ]
      ELSE IF event.type = "transfer.failed" /\ p # 0 /\ found
      THEN [ payouts |->
               [ pays EXCEPT ![p].status = "failed",
                             ![p].failureReason = "Stripe transfer failed" ],
             transactions |-> txs,
             campaign |-> RestoreBalance(c, pays[p]) ]
      ELSE [ payouts |-> pays, transactions |-> txs, campaign |-> c ]

\* POST /payouts/webhook/stripe
StripeWebhook(event) ==
  /\ Counted
  /\ LET r == handleStripeTransferWebhook(campaign, payouts, transactions, event)
     IN  /\ campaign' = r.campaign
         /\ payouts' = r.payouts
         /\ transactions' = r.transactions
  /\ last' = Handled(event.type, event.payoutId, "received")
  /\ UNCHANGED << isTestMode, donations, transfers >>

\* Stripe delivers, once, the event that ends transfer i: transfer.paid or
\* transfer.failed with the payoutId the transfer was created with
DeliverTransferEvent(i) ==
  /\ i \in DOMAIN transfers
  /\ ~transfers[i].delivered
  /\ \E type \in {"transfer.paid", "transfer.failed"} :
       LET event == [ type |-> type, payoutId |-> transfers[i].payoutId ]
           r == handleStripeTransferWebhook(campaign, payouts, transactions, event)
       IN  /\ campaign' = r.campaign
           /\ payouts' = r.payouts
           /\ transactions' = r.transactions
           /\ last' = Handled(type, event.payoutId, "delivered")
  /\ transfers' = [ transfers EXCEPT ![i].delivered = TRUE ]
  /\ UNCHANGED << isTestMode, donations, nRequests, feeCall, inFlight >>

\* ------------------------------------------ PUT /admin/payouts/process/:id
AdminActions == {"approve", "reject", "process_stripe"}

\* the updateData the switch builds for the payout row
AdminUpdate(row, action) ==
  CASE action = "approve" -> [ row EXCEPT !.status = "approved" ]
    [] action = "reject" ->
         [ row EXCEPT !.status = "failed", !.failureReason = "Rejected by admin" ]
    [] action = "process_stripe" ->
         [ row EXCEPT !.status = "processing", !.stripeTransferId = "tr" ]

\* destination: whether stripeTransferData.destinationAccount is given (a
\* transfer is created) or not (a payment intent is created instead)
AdminProcessPayout(p, action, destination, accepted) ==
  /\ Counted
  /\ IF p \notin 1..Len(payouts)
     THEN /\ last' = Handled("admin." \o action, p, "Payout not found")
          /\ UNCHANGED << payouts, transfers >>
     ELSE IF action = "process_stripe" /\ ~accepted
     THEN /\ last' = Handled("admin." \o action, p, "Stripe transfer failed")
          /\ UNCHANGED << payouts, transfers >>
     ELSE /\ payouts' = [ payouts EXCEPT ![p] = AdminUpdate(payouts[p], action) ]
          /\ IF action = "process_stripe" /\ destination
             THEN transfers' = Append(transfers, NewTransfer(p, payouts[p].netAmount))
             ELSE UNCHANGED transfers
          /\ last' = Handled("admin." \o action, p, "ok")
  /\ UNCHANGED << isTestMode, campaign, donations, transactions >>

\* ------------------------------------------------------ POST /payouts/manual
PaymentMethods == {"bank_transfer"}

ManualPayout(userId, amount, paymentMethod) ==
  /\ Counted
  /\ IF userId # campaign.userId
     THEN /\ last' = Handled("manualPayout", 0, "Campaign not found or access denied")
          /\ UNCHANGED payouts
     ELSE /\ payouts' = Append(payouts, ManualPayoutRow(userId, amount, paymentMethod))
          /\ last' = Handled("manualPayout", Len(payouts) + 1, "ok")
  /\ UNCHANGED << isTestMode, campaign, donations, transactions,
                  transfers >>

\* ------------------------------ POST /payouts/debug/set-stripe-connect/:id
SetStripeConnect ==
  /\ Counted
  /\ campaign.stripeConnectAccountId = NULL
  /\ campaign' = [ campaign EXCEPT !.stripeConnectAccountId = Account ]
  /\ last' = Handled("setStripeConnect", 0, "ok")
  /\ UNCHANGED << isTestMode, donations, payouts, transactions,
                  transfers >>

\* ---------------------------------------------------------------- behaviour
Next ==
  \/ \E amount \in DonationAmounts : \E pi \in PaymentIntents(amount) :
       CreateDonation(amount, pi)
  \/ ReprocessCampaign
  \/ \E userId \in Users, outcome \in TransferOutcomes : RequestPayout(userId, outcome)
  \/ \E p \in 1..(Len(payouts) + 1), outcome \in TransferOutcomes : ProcessPayout(p, outcome)
  \/ \E event \in WebhookEvents : StripeWebhook(event)
  \/ \E p \in 1..(Len(payouts) + 1), action \in AdminActions, destination \in BOOLEAN,
        accepted \in BOOLEAN :
       AdminProcessPayout(p, action, destination, accepted)
  \/ \E userId \in Users, amount \in ManualAmounts, method \in PaymentMethods :
       ManualPayout(userId, amount, method)
  \/ SetStripeConnect

Spec == Init /\ [][Next]_vars

\* ------------------------------------------- the events of accepted transfers
\* the requests of one campaign together with Stripe's deliveries; every
\* accepted transfer has its event delivered, and the handler runs
LiveAmounts == {5000}

NextLive ==
  \/ \E amount \in LiveAmounts : \E pi \in PaymentIntents(amount) :
       CreateDonation(amount, pi)
  \/ \E userId \in Users, outcome \in TransferOutcomes : RequestPayout(userId, outcome)
  \/ \E p \in 1..(Len(payouts) + 1), outcome \in TransferOutcomes : ProcessPayout(p, outcome)
  \/ \E p \in 1..(Len(payouts) + 1), action \in AdminActions, destination \in BOOLEAN,
        accepted \in BOOLEAN :
       AdminProcessPayout(p, action, destination, accepted)
  \/ \E userId \in Users, amount \in ManualAmounts, method \in PaymentMethods :
       ManualPayout(userId, amount, method)
  \/ SetStripeConnect
  \/ \E i \in 1..MaxRequests : DeliverTransferEvent(i)

SpecLive ==
  /\ Init
  /\ [][NextLive]_vars
  /\ \A i \in 1..MaxRequests : WF_vars(DeliverTransferEvent(i))

\* ------------------------------------------- requests interleaved at awaits
\* Node runs one handler until its next await; the database calls of two
\* requests in flight interleave.  A handler is cut where it awaits a call
\* that reads or writes the campaign row, and keeps its locals in its slot.
RaceAmounts == {2747, 5000}

Started ==
  /\ nRequests < MaxStarted
  /\ nRequests' = nRequests + 1
  /\ UNCHANGED feeCall

\* POST /donations: the campaign row is read
DonationRead(t, amount) ==
  /\ inFlight[t].pc = "idle"
  /\ Started
  /\ inFlight' =
       [ inFlight EXCEPT ![t] =
           [ pc |-> "donation.insert", amount |-> amount,
             read |-> campaign.currentAmount, id |-> 0 ] ]
  /\ UNCHANGED << isTestMode, campaign, donations, payouts, transactions,
                  transfers, last >>

\* POST /donations: the payment intent has matched, the donation row is
\* inserted and processDonation credits the balance
DonationCredit(t) ==
  /\ inFlight[t].pc = "donation.insert"
  /\ LET d == Len(donations) + 1
         inserted ==
           Append(donations,
                  NewDonation(inFlight[t].amount, PaymentIntentId(inFlight[t].amount)))
         credited == processDonation(campaign, inserted, transactions, d)
     IN  /\ donations' = inserted
         /\ transactions' = credited.transactions
         /\ campaign' = credited.campaign
         /\ inFlight' = [ inFlight EXCEPT ![t].pc = "donation.write", ![t].id = d ]
  /\ UNCHANGED << isTestMode, payouts, transfers, nRequests, last, feeCall >>

\* POST /donations: currentAmount is written from the row read on entry
DonationWrite(t) ==
  /\ inFlight[t].pc = "donation.write"
  /\ campaign' =
       [ campaign EXCEPT !.currentAmount = inFlight[t].read + inFlight[t].amount ]
  /\ last' = Handled("createDonation", inFlight[t].id, "ok")
  /\ inFlight' = [ inFlight EXCEPT ![t] = Idle ]
  /\ UNCHANGED << isTestMode, donations, payouts, transactions, transfers,
                  nRequests, feeCall >>

\* requestPayout: the campaign is read and checked, the balance is read and
\* the pending payout row is inserted
PayoutInsert(t, userId) ==
  /\ inFlight[t].pc = "idle"
  /\ Started
  /\ LET balance == getCampaignBalance(campaign)
         amount == balance.availableBalance
         refused(reason) ==
           /\ last' = Handled("requestPayout", 0, reason)
           /\ UNCHANGED << payouts, inFlight >>
     IN  IF ~OwnsCampaign(campaign, userId)
         THEN refused("Campaign not found or access denied")
         ELSE IF campaign.stripeConnectAccountId = NULL
         THEN refused("Stripe Connect account not set up for this campaign")
         ELSE IF ~balance.canPayout
         THEN refused("Minimum payout amount")
         ELSE
           /\ payouts' = Append(payouts, RequestedPayoutRow(userId, amount))
           /\ inFlight' =
                [ inFlight EXCEPT ![t] =
                    [ pc |-> "payout.transfer", amount |-> amount,
                      read |-> campaign.paidOut, id |-> Len(payouts) + 1 ] ]
           /\ UNCHANGED last
  /\ UNCHANGED << isTestMode, campaign, donations, transactions, transfers >>

\* requestPayout: processStripePayout makes the transfer call
PayoutTransfer(t, outcome) ==
  /\ inFlight[t].pc = "payout.transfer"
  /\ LET r == processStripePayout(campaign, payouts, transactions, transfers,
                                  inFlight[t].id, outcome)
     IN  /\ payouts' = r.payouts
         /\ transactions' = r.transactions
         /\ transfers' = r.transfers
         /\ IF r.success
            THEN /\ inFlight' = [ inFlight EXCEPT ![t].pc = "payout.write" ]
                 /\ UNCHANGED last
            ELSE /\ inFlight' = [ inFlight EXCEPT ![t] = Idle ]
                 /\ last' = Handled("requestPayout", inFlight[t].id, r.error)
  /\ UNCHANGED << isTestMode, campaign, donations, nRequests, feeCall >>

\* requestPayout: the campaign row is written, the payout transaction is
\* inserted
PayoutWrite(t) ==
  /\ inFlight[t].pc = "payout.write"
  /\ LET amount == inFlight[t].amount
         p == inFlight[t].id
     IN  /\ campaign' =
              ReserveBalance([ campaign EXCEPT !.paidOut = inFlight[t].read ], amount)
         /\ transactions' =
              Append(transactions,
                [ type |-> "payout", donationId |-> 0, payoutId |-> p,
                  amount |-> amount, platformFee |-> ToFixed2(amount * 5, 100),
                  processingFee |-> 0, netAmount |-> ToFixed2(amount * 95, 100),
                  status |-> "processing" ])
         /\ last' = Handled("requestPayout", p, "ok")
  /\ inFlight' = [ inFlight EXCEPT ![t] = Idle ]
  /\ UNCHANGED << isTestMode, donations, payouts, transfers, nRequests, feeCall >>

NextRace ==
  \/ SetStripeConnect
  \/ \E t \in 1..MaxInFlight, amount \in RaceAmounts : DonationRead(t, amount)
  \/ \E t \in 1..MaxInFlight : DonationCredit(t)
  \/ \E t \in 1..MaxInFlight : DonationWrite(t)
  \/ \E t \in 1..MaxInFlight, userId \in Users : PayoutInsert(t, userId)
  \/ \E t \in 1..MaxInFlight, outcome \in TransferOutcomes : PayoutTransfer(t, outcome)
  \/ \E t \in 1..MaxInFlight : PayoutWrite(t)

SpecRace == Init /\ [][NextRace]_vars

\* ------------------------------------------- calculateFees on its own
\* every gross amount and fee schedule of the bounds, then the call
InitFees ==
  /\ isTestMode = FALSE
  /\ campaign =
       [ userId |-> Owner, currentAmount |-> 0, availableBalance |-> 0,
         paidOut |-> 0, stripeConnectAccountId |-> NULL ]
  /\ donations = << >>
  /\ payouts = << >>
  /\ transactions = << >>
  /\ transfers = << >>
  /\ nRequests = 0
  /\ last = Handled("init", 0, "ok")
  /\ \E amount \in (1..MaxAmount) \cup DonationAmounts, s \in FeeSchedules :
       feeCall = [ NoFeeCall EXCEPT !.amount = amount, !.settings = s ]
  /\ inFlight = NoneInFlight

CallCalculateFees ==
  /\ ~feeCall.returned
  /\ feeCall' =
       [ feeCall EXCEPT !.returned = TRUE,
                        !.fees = calculateFees(feeCall.amount, feeCall.settings) ]
  /\ UNCHANGED << isTestMode, campaign, donations, payouts, transactions,
                  transfers, nRequests, last, inFlight >>

SpecFees == InitFees /\ [][CallCalculateFees]_vars

\* ------------------------------------- a database statement that fails
\* processDonation and the success path of requestPayout each run two
\* statements outside any database transaction.  persisted: how many of the
\* two were executed before the database failed (0 or 1).
PersistedBeforeFailure == {0, 1}

\* POST /donations where processDonation fails at its insert (0) or at its
\* balance update (1); the route logs the error and goes on
DonationPersistenceFails(amount, persisted) ==
  /\ Counted
  /\ LET d == Len(donations) + 1
         inserted == Append(donations, NewDonation(amount, PaymentIntentId(amount)))
         credited == processDonation(campaign, inserted, transactions, d)
     IN  /\ donations' = inserted
         /\ transactions' =
              IF persisted >= 1 THEN credited.transactions ELSE transactions
         /\ campaign' =
              [ campaign EXCEPT !.currentAmount = campaign.currentAmount + amount ]
         /\ last' = Handled("createDonation", d, "ok")
  /\ UNCHANGED << isTestMode, payouts, transfers >>

\* requestPayout whose transfer was made and whose campaign update (0) or
\* transaction insert (1) fails
PayoutPersistenceFails(userId, persisted) ==
  /\ Counted
  /\ OwnsCampaign(campaign, userId)
  /\ campaign.stripeConnectAccountId # NULL
  /\ getCampaignBalance(campaign).canPayout
  /\ LET amount == getCampaignBalance(campaign).availableBalance
         p == Len(payouts) + 1
         inserted == Append(payouts, RequestedPayoutRow(userId, amount))
         transferResult ==
           processStripePayout(campaign, inserted, transactions, transfers, p, "accepted")
     IN  /\ payouts' = transferResult.payouts
         /\ transfers' = transferResult.transfers
         /\ transactions' = transferResult.transactions
         /\ campaign' =
              IF persisted >= 1 THEN ReserveBalance(campaign, amount) ELSE campaign
         /\ last' = Handled("requestPayout", p, "database error")
  /\ UNCHANGED << isTestMode, donations >>

NextFaults ==
  \/ \E amount \in RaceAmounts : \E pi \in PaymentIntents(amount) :
       CreateDonation(amount, pi)
  \/ \E userId \in Users, outcome \in TransferOutcomes : RequestPayout(userId, outcome)
  \/ SetStripeConnect
  \/ \E amount \in RaceAmounts, persisted \in PersistedBeforeFailure :
       DonationPersistenceFails(amount, persisted)
  \/ \E userId \in Users, persisted \in PersistedBeforeFailure :
       PayoutPersistenceFails(userId, persisted)

SpecFaults == Init /\ [][NextFaults]_vars

\* ------------------------------------------- the fees of a payout row
\* every amount of the bounds, then the row one of the two routes builds
RequestableAmounts ==
  DefaultMinimumPayoutAmount..(DefaultMinimumPayoutAmount + MaxAmount)

BuildRequestedPayout(amount) ==
  /\ payouts = << >>
  /\ payouts' = << RequestedPayoutRow(Owner, amount) >>
  /\ UNCHANGED << isTestMode, campaign, donations, transactions, transfers,
                  nRequests, last, feeCall, inFlight >>

BuildManualPayout(amount, paymentMethod) ==
  /\ payouts = << >>
  /\ payouts' = << ManualPayoutRow(Owner, amount, paymentMethod) >>
  /\ UNCHANGED << isTestMode, campaign, donations, transactions, transfers,
                  nRequests, last, feeCall, inFlight >>

NextPayoutRows ==
  \/ \E amount \in RequestableAmounts : BuildRequestedPayout(amount)
  \/ \E amount \in 1..MaxAmount, method \in PaymentMethods :
       BuildManualPayout(amount, method)

SpecPayoutRows == Init /\ [][NextPayoutRows]_vars

\* calculateFees on any number and any settings object, the ones a fee
\* calculator has to refuse included
AnyAmounts == (-3..MaxAmount) \cup DonationAmounts

AnyFeeSchedules ==
  { [ platformFeePercentage |-> pf, stripeProcessingFeePercentage |-> pp,
      stripeProcessingFeeFixed |-> fx,
      minimumPayoutAmount |-> DefaultMinimumPayoutAmount ] :
      pf \in {-DefaultPlatformFeePercentage, DefaultPlatformFeePercentage},
      pp \in {-DefaultStripeProcessingFeePercentage, DefaultStripeProcessingFeePercentage},
      fx \in {-DefaultStripeProcessingFeeFixed, DefaultStripeProcessingFeeFixed} }

InitFeesAny ==
  /\ isTestMode = FALSE
  /\ campaign =
       [ userId |-> Owner, currentAmount |-> 0, availableBalance |-> 0,
         paidOut |-> 0, stripeConnectAccountId |-> NULL ]
  /\ donations = << >>
  /\ payouts = << >>
  /\ transactions = << >>
  /\ transfers = << >>
  /\ nRequests = 0
  /\ last = Handled("init", 0, "ok")
  /\ \E amount \in AnyAmounts, s \in AnyFeeSchedules :
       feeCall = [ NoFeeCall EXCEPT !.amount = amount, !.settings = s ]
  /\ inFlight = NoneInFlight

SpecFeesAny == InitFeesAny /\ [][CallCalculateFees]_vars

\* ==================================================================== claims
IsPayout(p) == p \in 1..Len(payouts)

DonationTransactions(txs, d) ==
  { i \in 1..Len(txs) : txs[i].type = "donation" /\ txs[i].donationId = d }

\* C1: after any sequence of donation credits, payout requests and transfer
\* events, the campaign's availableBalance is never negative.
C1_BalanceNeverNegative == campaign.availableBalance >= 0

\* C2: crediting is idempotent per donation: processing donations that were
\* already credited (the reprocess endpoint) leaves availableBalance as it was
\* and leaves exactly one donation transaction per donation.
C2_CreditIdempotent ==
  [][ last'.op = "reprocessCampaign" =>
        /\ campaign'.availableBalance = campaign.availableBalance
        /\ \A d \in 1..Len(donations) :
             Cardinality(DonationTransactions(transactions', d)) = 1 ]_vars

\* C3: for every gross amount a > 0 and every fee schedule with non-negative
\* percentages and fixed fee, platformFee + processingFee + netAmount is
\* within one cent of a.
C3_FeesReconcile ==
  feeCall.returned =>
    LET f == feeCall.fees
        diff == f.platformFee + f.processingFee + f.netAmount - feeCall.amount
    IN  -1 <= diff /\ diff <= 1

\* a call whose three rounded values miss the gross amount by a cent
C3_Witness ==
  /\ feeCall.returned
  /\ feeCall.amount > 0
  /\ feeCall.fees.platformFee + feeCall.fees.processingFee + feeCall.fees.netAmount
       # feeCall.amount

\* C4: processDonation on a completed donation of gross a raises
\* availableBalance by exactly the netAmount of calculateFees(a), and appends
\* exactly one completed donation transaction carrying that platformFee,
\* processingFee and netAmount; with 5% / 2.9% + 0.30, a = 50.00 and balance
\* 100.00 the fees are 2.50 and 1.75, the net 45.75, the new balance 145.75.
C4_DonationCredit ==
  [][ (last'.op = "createDonation" /\ last'.result = "ok") =>
        LET d == last'.id
            a == donations'[d].amount
            n == Len(transactions')
            t == transactions'[n]
        IN  /\ d = Len(donations) + 1
            /\ n = Len(transactions) + 1
            /\ SubSeq(transactions', 1, n - 1) = transactions
            /\ t.type = "donation" /\ t.donationId = d /\ t.status = "completed"
            /\ t.amount = a
            /\ t = [ t EXCEPT !.platformFee = calculateFees(a, DefaultSettings).platformFee,
                              !.processingFee = calculateFees(a, DefaultSettings).processingFee,
                              !.netAmount = calculateFees(a, DefaultSettings).netAmount ]
            /\ campaign'.availableBalance = campaign.availableBalance + t.netAmount
            /\ campaign'.paidOut = campaign.paidOut
            /\ (a = 5000 /\ campaign.availableBalance = 10000 =>
                  /\ t.processingFee = 175
                  /\ t.platformFee = 250
                  /\ t.netAmount = 4575
                  /\ campaign'.availableBalance = 14575) ]_vars

\* the scenario: 50.00 donated to a campaign that held 100.00
C4_Witness ==
  /\ last.op = "createDonation" /\ last.result = "ok"
  /\ donations[last.id].amount = 5000
  /\ campaign.availableBalance = 14575
  /\ Len(transactions) = 2

\* C5: if the external transfer attempted inside requestPayout fails
\* synchronously, availableBalance after requestPayout has returned its error
\* equals availableBalance before the call.
C5_SyncFailureKeepsBalance ==
  [][ (last'.op = "requestPayout" /\ last'.result = "transfer error") =>
        campaign'.availableBalance = campaign.availableBalance ]_vars

\* a payout request on an eligible balance whose transfer was refused
C5_Witness ==
  /\ last.op = "requestPayout" /\ last.result = "transfer error"
  /\ IsPayout(last.id) /\ payouts[last.id].status = "failed"
  /\ campaign.availableBalance >= DefaultMinimumPayoutAmount

\* C6: handling a transfer.paid event for a payout raises the campaign's
\* paidOut by exactly that payout's netAmount and leaves availableBalance
\* unchanged.
C6_PaidCreditsNet ==
  [][ (last'.op = "transfer.paid" /\ IsPayout(last'.id)) =>
        /\ campaign'.paidOut = campaign.paidOut + payouts[last'.id].netAmount
        /\ campaign'.availableBalance = campaign.availableBalance ]_vars

\* a transfer.paid event handled for a payout in processing
C6_Witness ==
  /\ last.op = "transfer.paid" /\ IsPayout(last.id)
  /\ payouts[last.id].status = "completed"
  /\ payouts[last.id].netAmount > 0
  /\ payouts[last.id].netAmount < payouts[last.id].amount
  /\ payouts[last.id].stripeTransferId = "tr"

\* C7: requestPayout on a balance B >= minimum brings availableBalance to 0,
\* and a transfer.failed event for that payout then restores availableBalance
\* to exactly B, the reserved amount.
C7_FailedRestoresReserved ==
  [][ /\ (last'.op = "requestPayout" /\ last'.result = "ok" =>
            /\ campaign'.availableBalance = 0
            /\ payouts'[last'.id].amount = campaign.availableBalance)
      /\ ( ( /\ last'.op = "transfer.failed" /\ IsPayout(last'.id)
             /\ last.op = "requestPayout" /\ last.result = "ok"
             /\ last.id = last'.id ) =>
             campaign'.availableBalance = payouts[last'.id].amount ) ]_vars

\* C8: requestPayout on an availableBalance strictly below the minimum payout
\* amount fails with the below-minimum error and changes nothing (no payout
\* row, no transaction, no transfer, balance and paidOut as before); a
\* balance equal to the minimum is eligible.
C8_BelowMinimumRefused ==
  [][ ( /\ last'.op = "requestPayout"
        /\ last'.result # "Campaign not found or access denied"
        /\ last'.result # "Stripe Connect account not set up for this campaign" ) =>
        IF campaign.availableBalance < DefaultMinimumPayoutAmount
        THEN /\ last'.result = "Minimum payout amount"
             /\ UNCHANGED << campaign, payouts, transactions, transfers, donations >>
        ELSE /\ last'.result # "Minimum payout amount"
             /\ Len(payouts') = Len(payouts) + 1
             /\ payouts'[Len(payouts')].amount = campaign.availableBalance ]_vars

\* a refused request on a campaign that holds money, but less than the minimum
C8_Witness ==
  /\ last.op = "requestPayout" /\ last.result = "Minimum payout amount"
  /\ campaign.availableBalance > 0
  /\ campaign.availableBalance < DefaultMinimumPayoutAmount
  /\ campaign.stripeConnectAccountId # NULL

\* C9: webhook handling is idempotent under duplicate delivery: a
\* transfer.paid event for an already completed payout, and a transfer.failed
\* event for an already failed payout, change neither the payout's status nor
\* the campaign's paidOut and availableBalance.
C9_WebhookIdempotent ==
  [][ ( /\ last'.op \in {"transfer.paid", "transfer.failed"}
        /\ last = last'
        /\ IsPayout(last.id) ) =>
        /\ payouts'[last.id].status = payouts[last.id].status
        /\ campaign'.paidOut = campaign.paidOut
        /\ campaign'.availableBalance = campaign.availableBalance ]_vars

\* C10: every change of a payout's status is one of pending->approved,
\* pending->failed, approved->processing, processing->completed,
\* processing->failed.
AllowedTransitions ==
  { << "pending", "approved" >>, << "pending", "failed" >>,
    << "approved", "processing" >>, << "processing", "completed" >>,
    << "processing", "failed" >> }

C10_StatusTransitions ==
  [][ \A p \in 1..Len(payouts) :
        payouts'[p].status # payouts[p].status =>
          << payouts[p].status, payouts'[p].status >> \in AllowedTransitions ]_vars

\* C11: requestPayout by a user who does not own the campaign, or for a
\* campaign with no stripeConnectAccountId, fails before any state change: no
\* payout row, no transfer, availableBalance and paidOut unchanged.
C11_RefusedBeforeWrite ==
  [][ \A userId \in Users, outcome \in TransferOutcomes :
        ( /\ RequestPayout(userId, outcome)
          /\ (userId # campaign.userId \/ campaign.stripeConnectAccountId = NULL) ) =>
          /\ last'.result \in { "Campaign not found or access denied",
                                "Stripe Connect account not set up for this campaign" }
          /\ UNCHANGED << campaign, payouts, transactions, transfers >> ]_vars

\* a stranger's request refused on a campaign that could have been paid out
C11_Witness ==
  /\ last.op = "requestPayout"
  /\ last.result = "Campaign not found or access denied"
  /\ campaign.stripeConnectAccountId # NULL
  /\ campaign.availableBalance >= DefaultMinimumPayoutAmount

\* C12: the fee calculation fails with InvalidAmount when amount <= 0 and with
\* InvalidFeeSchedule when a fee percentage or the fixed fee is negative: it
\* returns no fee split in those cases.
ValidFeeSchedule(s) ==
  /\ s.platformFeePercentage >= 0
  /\ s.stripeProcessingFeePercentage >= 0
  /\ s.stripeProcessingFeeFixed >= 0

C12_InvalidInputsRejected ==
  (feeCall.amount <= 0 \/ ~ValidFeeSchedule(feeCall.settings)) => ~feeCall.returned

\* C15: in every reachable state availableBalance + paidOut is at most
\* currentAmount minus the platform and processing fees recorded on the
\* campaign's donation transactions.
RECURSIVE DonationFees(_, _)
DonationFees(txs, i) ==
  IF i = 0 THEN 0
  ELSE DonationFees(txs, i - 1)
       + (IF txs[i].type = "donation"
          THEN txs[i].platformFee + txs[i].processingFee ELSE 0)

C15_BalanceWithinRaised ==
  campaign.availableBalance + campaign.paidOut
    <= campaign.currentAmount - DonationFees(transactions, Len(transactions))

\* C17: every payout row's amount is the campaign's availableBalance at the
\* moment the payout is requested, whether requestPayout or the manual payout
\* route inserts it.
C17_PayoutAmountIsBalance ==
  [][ Len(payouts') = Len(payouts) + 1 =>
        payouts'[Len(payouts')].amount = campaign.availableBalance ]_vars

\* C18: the netAmount calculateFees returns is exactly the amount minus the
\* returned processingFee minus the returned platformFee.
C18_NetIsAmountMinusFees ==
  feeCall.returned =>
    feeCall.fees.netAmount
      = feeCall.amount - feeCall.fees.processingFee - feeCall.fees.platformFee

\* C19: with no request in flight, paidOut is the sum of netAmount over the
\* completed payouts; requesting a payout adds nothing to it.
RECURSIVE CompletedNet(_, _)
CompletedNet(pays, i) ==
  IF i = 0 THEN 0
  ELSE CompletedNet(pays, i - 1)
       + (IF pays[i].status = "completed" THEN pays[i].netAmount ELSE 0)

C19_PaidOutIsCompletedNet ==
  campaign.paidOut = CompletedNet(payouts, Len(payouts))

\* C14: when the transfer call made for a payout ends in a timeout, the payout
\* is not marked failed: it is left processing for a later webhook or
\* reconciliation to resolve.
C14_TimeoutLeavesProcessing ==
  [][ (last'.op \in {"requestPayout", "processPayout"} /\ last'.result = "timeout") =>
        payouts'[last'.id].status = "processing" ]_vars

\* no request is stopped at an await
Quiescent == \A t \in 1..MaxInFlight : inFlight[t].pc = "idle"

\* the net amounts processDonation has credited
RECURSIVE NetCredited(_, _)
NetCredited(txs, i) ==
  IF i = 0 THEN 0
  ELSE NetCredited(txs, i - 1)
       + (IF txs[i].type = "donation" THEN txs[i].netAmount ELSE 0)

\* the amounts held by payouts that have not failed
RECURSIVE ReservedAmount(_, _)
ReservedAmount(pays, i) ==
  IF i = 0 THEN 0
  ELSE ReservedAmount(pays, i - 1)
       + (IF pays[i].status # "failed" THEN pays[i].amount ELSE 0)

\* the gross amounts of the completed donations
RECURSIVE GrossRaised(_, _)
GrossRaised(dons, i) ==
  IF i = 0 THEN 0
  ELSE GrossRaised(dons, i - 1)
       + (IF dons[i].status = "completed" THEN dons[i].amount ELSE 0)

\* C13: a donation credit racing a payout request is not lost: once both have
\* completed (one payout request, which read balance B and reserved it, and
\* donations crediting B + n in all), availableBalance plus the amount the
\* payout reserved is B + n.
C13_NoLostCredit ==
  (Quiescent /\ Len(payouts) = 1 /\ payouts[1].status # "failed") =>
    campaign.availableBalance + payouts[1].amount
      = NetCredited(transactions, Len(transactions))

\* C16: under interleaved donation-create requests currentAmount never
\* decreases, and once no request is in flight it is the sum of the gross
\* amounts of the completed donations.
C16_CurrentAmountIsGrossRaised ==
  [][ /\ campaign'.currentAmount >= campaign.currentAmount
      /\ Quiescent' => campaign'.currentAmount = GrossRaised(donations', Len(donations'))
    ]_vars

\* C20: requestPayout reserves before it transfers: when the transfer call
\* for a payout is made, the payout row is pending and availableBalance has
\* already been reduced by its amount (the balance and the amounts held by
\* payouts together do not exceed what was credited).
C20_ReservedBeforeTransfer ==
  [][ \A t \in 1..MaxInFlight, outcome \in TransferOutcomes :
        PayoutTransfer(t, outcome) =>
          /\ payouts[inFlight[t].id].status = "pending"
          /\ campaign.availableBalance + ReservedAmount(payouts, Len(payouts))
               <= NetCredited(transactions, Len(transactions)) ]_vars

C23_PayoutAndTransactionAgree ==
  /\ \A i \in DOMAIN transactions :
       (transactions[i].type = "payout" /\ transactions[i].payoutId \in DOMAIN payouts) =>
         transactions[i].status = payouts[transactions[i].payoutId].status
  /\ \A p \in DOMAIN payouts :
       payouts[p].status = "processing" => payouts[p].stripeTransferId # NULL

\* C24: a payout whose transfer has been accepted cannot be cancelled: from
\* status processing only a transfer.paid or transfer.failed event changes
\* the payout's status, no user or admin action does.
C24_ProcessingOnlyWebhook ==
  [][ \A p \in DOMAIN payouts :
        (payouts[p].status = "processing" /\ payouts'[p].status # "processing") =>
          last'.op \in {"transfer.paid", "transfer.failed"} ]_vars

\* C30: processStripePayout on a payout that is not pending rejects the call,
\* leaves the payout's status, failureReason and transfer id as they were and
\* makes no transfer.
C30_NotPendingRejected ==
  [][ \A p \in DOMAIN payouts, outcome \in TransferOutcomes :
        (ProcessPayout(p, outcome) /\ payouts[p].status # "pending") =>
          /\ last'.result = "Payout not found or already processed"
          /\ payouts'[p] = payouts[p]
          /\ transfers' = transfers ]_vars

\* C26: every payout row's stored netAmount is exactly its amount minus its
\* platformFee minus its processingFee, for the rows of requestPayout and for
\* the rows of the manual payout route.
C26_PayoutNetIsAmountMinusFees ==
  \A p \in DOMAIN payouts :
    payouts[p].netAmount
      = payouts[p].amount - payouts[p].platformFee - payouts[p].processingFee

\* C28: under the default fee schedule the netAmount processDonation credits
\* for a donation the create schema accepts is not negative: a donation never
\* lowers availableBalance.
C28_CreditNotNegative ==
  [][ \A amount \in DonationAmounts : \A pi \in PaymentIntents(amount) :
        CreateDonation(amount, pi) =>
          /\ campaign'.availableBalance >= campaign.availableBalance
          /\ \A i \in DOMAIN transactions' :
               transactions'[i].type = "donation" => transactions'[i].netAmount >= 0 ]_vars

\* C29: one payment confirmation credits at most one donation: no two
\* completed donations carry the same paymentIntentId, however often a
\* succeeded paymentIntentId is submitted.
C29_OneDonationPerIntent ==
  \A d, e \in DOMAIN donations :
    ( /\ donations[d].status = "completed"
      /\ donations[e].status = "completed"
      /\ donations[d].paymentIntentId = donations[e].paymentIntentId ) => d = e

\* the amounts the payout transactions record as taken from the balance
RECURSIVE PayoutDebited(_, _)
PayoutDebited(txs, i) ==
  IF i = 0 THEN 0
  ELSE PayoutDebited(txs, i - 1)
       + (IF txs[i].type = "payout" THEN txs[i].amount ELSE 0)

\* C21: a balance change and its transaction row are written together or not
\* at all, also when the database fails between the statements of
\* processDonation or of requestPayout's success path: availableBalance is
\* what the donation transactions credit minus what the payout transactions
\* take.
C21_BalanceMatchesTransactions ==
  campaign.availableBalance
    = NetCredited(transactions, Len(transactions))
      - PayoutDebited(transactions, Len(transactions))

\* C25: every payout whose transfer was accepted (it is processing and Stripe
\* has the transfer) eventually is completed or failed, given that Stripe
\* delivers the transfer's event and the webhook handler runs.
TransferOutstanding(p) ==
  /\ p \in DOMAIN payouts
  /\ payouts[p].status = "processing"
  /\ \E i \in DOMAIN transfers : transfers[i].payoutId = p /\ ~transfers[i].delivered

C25_AcceptedEventuallySettled ==
  \A p \in 1..MaxRequests :
    TransferOutstanding(p) ~>
      (p \in DOMAIN payouts /\ payouts[p].status \in {"completed", "failed"})

C25_Witness ==
  /\ last.result = "delivered"
  /\ last.op = "transfer.failed"
  /\ payouts[last.id].status = "failed"
  /\ \A i \in DOMAIN transfers : transfers[i].delivered

\* the amounts stripe.transfers.create was called with and accepted
RECURSIVE Transferred(_, _)
Transferred(trs, i) ==
  IF i = 0 THEN 0 ELSE Transferred(trs, i - 1) + trs[i].amount

\* C27: under any interleaving of requests the total sent to the transfer API
\* never exceeds the total netAmount the donations credited; two requestPayout
\* calls that read the same balance do not both transfer it.
C27_TransfersWithinCredits ==
  Transferred(transfers, Len(transfers)) <= NetCredited(transactions, Len(transactions))

====
